---------------------------- MODULE Spec2Model ----------------------------
(***************************************************************************)
(* Model of src/analyzer/code_analyzer.py: the five detection passes, the  *)
(* metrics aggregation and the per-file loop of analyze_flutter_project.   *)
(*                                                                         *)
(* A Python str is a sequence of one-character strings, so that strip,     *)
(* split, count, lower, replace, substring tests and the regular           *)
(* expressions are computed character by character.  A file's content is   *)
(* the list readlines() returns: every line keeps its trailing newline.    *)
(***************************************************************************)
EXTENDS Integers, Sequences, FiniteSets, TLC

VARIABLES
    file_paths,    \* argument of analyze_flutter_project
    disk,          \* path -> lines, what open(path).readlines() returns
    idx,           \* number of paths the for loop has finished
    pc,            \* position inside the loop body
    content,       \* lines of the file being analysed
    issues,        \* findings of the file being analysed
    i,             \* 0-based loop index of _detect_long_methods
    method_start,  \* local of _detect_long_methods (None or a line number)
    brace_count,   \* local of _detect_long_methods
    long_issues,   \* local `issues` of _detect_long_methods
    closed,        \* history: <<start, closing line>> of every closed method
    metrics,       \* result of _calculate_metrics for the current file
    results        \* path -> FileAnalysis

vars == <<file_paths, disk, idx, pc, content, issues, i, method_start,
          brace_count, long_issues, closed, metrics, results>>

\* An Optional value: None, or the one-element tuple of the value
None == << >>
Some(x) == <<x>>
Value(o) == o[1]

-----------------------------------------------------------------------------
(* Characters and str methods                                              *)

Lower == {"a","b","c","d","e","f","g","h","i","j","k","l","m",
          "n","o","p","q","r","s","t","u","v","w","x","y","z"}
Upper == {"A","B","C","D","E","F","G","H","I","J","K","L","M",
          "N","O","P","Q","R","S","T","U","V","W","X","Y","Z"}
\* [a-zA-Z]
Letter == Lower \cup Upper
\* [_a-zA-Z]
LetterOrUnderscore == Letter \cup {"_"}
\* \s of re, and the characters str.strip() and str.split() treat as blank
WS == {" ", "\t", "\n", "\r", "\f"}

\* First position >= p of s whose character is outside C (Len(s)+1 if none).
RECURSIVE SkipWhile(_, _, _)
SkipWhile(s, p, C) ==
    IF p <= Len(s) /\ s[p] \in C THEN SkipWhile(s, p + 1, C) ELSE p

\* Last position <= p of s whose character is outside C (0 if none).
RECURSIVE SkipBack(_, _, _)
SkipBack(s, p, C) ==
    IF p >= 1 /\ s[p] \in C THEN SkipBack(s, p - 1, C) ELSE p

\* First position >= p of s holding a character of C (Len(s)+1 if none).
RECURSIVE Find(_, _, _)
Find(s, p, C) ==
    IF p <= Len(s) /\ s[p] \notin C THEN Find(s, p + 1, C) ELSE p

\* str.strip()
Strip(s) ==
    LET a == SkipWhile(s, 1, WS)
        b == SkipBack(s, Len(s), WS)
    IN  IF a > b THEN << >> ELSE SubSeq(s, a, b)

\* str.startswith(p)
StartsWith(s, p) == Len(s) >= Len(p) /\ SubSeq(s, 1, Len(p)) = p

\* s[p:].startswith(w)
MatchAt(s, p, w) ==
    p + Len(w) - 1 <= Len(s) /\ SubSeq(s, p, p + Len(w) - 1) = w

\* sub in s
Contains(sub, s) == \E p \in 1..(Len(s) + 1) : MatchAt(s, p, sub)

\* str.count(ch) for a one-character ch
Count(s, ch) == Cardinality({p \in 1..Len(s) : s[p] = ch})

\* s.split(ch)[0]
SplitFirst(s, ch) == SubSeq(s, 1, Find(s, 1, {ch}) - 1)

\* Last position <= p of s holding a character of C (0 if none).
RECURSIVE FindBack(_, _, _)
FindBack(s, p, C) ==
    IF p >= 1 /\ s[p] \notin C THEN FindBack(s, p - 1, C) ELSE p

\* s.split(ch)[-1]
SplitLast(s, ch) == SubSeq(s, FindBack(s, Len(s), {ch}) + 1, Len(s))

\* s.split()[-1]: the last blank-separated word (s holds one)
LastWord(s) ==
    LET b == SkipBack(s, Len(s), WS)
    IN  SubSeq(s, FindBack(s, b, WS) + 1, b)

ToLower ==
    [c \in Upper |->
        CASE c = "A" -> "a" [] c = "B" -> "b" [] c = "C" -> "c" [] c = "D" -> "d"
          [] c = "E" -> "e" [] c = "F" -> "f" [] c = "G" -> "g" [] c = "H" -> "h"
          [] c = "I" -> "i" [] c = "J" -> "j" [] c = "K" -> "k" [] c = "L" -> "l"
          [] c = "M" -> "m" [] c = "N" -> "n" [] c = "O" -> "o" [] c = "P" -> "p"
          [] c = "Q" -> "q" [] c = "R" -> "r" [] c = "S" -> "s" [] c = "T" -> "t"
          [] c = "U" -> "u" [] c = "V" -> "v" [] c = "W" -> "w" [] c = "X" -> "x"
          [] c = "Y" -> "y" [] c = "Z" -> "z"]

\* str.lower()
LowerCase(s) == [p \in 1..Len(s) |-> IF s[p] \in Upper THEN ToLower[s[p]] ELSE s[p]]

\* str.replace(a, b) for one-character a and b
Replace(s, a, b) == [p \in 1..Len(s) |-> IF s[p] = a THEN b ELSE s[p]]

\* ('//', '/*', '*')
CommentMarkers == {<<"/", "/">>, <<"/", "*">>, <<"*">>}

\* stripped.startswith(('//', '/*', '*'))
IsComment(stripped) == \E m \in CommentMarkers : StartsWith(stripped, m)

-----------------------------------------------------------------------------
(* Regular expressions.  Each class that follows a repetition is disjoint  *)
(* from the repeated class, so the greedy scan is the only way to match.   *)

Quote == {"'", "\""}

\* re.compile(r'^import\s+[\'"](.+?)[\'"]').match(t): group(1), or None.
\* The lazy group takes at least one character and ends before the first
\* quote after it.
ImportMatch(t) ==
    LET kw == <<"i", "m", "p", "o", "r", "t">>
        a  == Len(kw) + 1
        b  == SkipWhile(t, a, WS)
        e  == Find(t, b + 2, Quote)
    IN  IF /\ StartsWith(t, kw)
           /\ b > a
           /\ b <= Len(t) /\ t[b] \in Quote
           /\ b + 1 <= Len(t) /\ t[b + 1] # "\n"
           /\ e <= Len(t)
           /\ \A p \in (b + 1)..(e - 1) : t[p] # "\n"
        THEN SubSeq(t, b + 1, e - 1)
        ELSE None

\* (?:@[a-zA-Z]+\s+)* from position p: the position after the annotations
RECURSIVE SkipAnnotations(_, _)
SkipAnnotations(t, p) ==
    LET q == SkipWhile(t, p + 1, Letter)
        r == SkipWhile(t, q, WS)
    IN  IF p <= Len(t) /\ t[p] = "@" /\ q > p + 1 /\ r > q
        THEN SkipAnnotations(t, r)
        ELSE p

\* \s*\([^)]*\) from position p
ParamListAt(t, p) ==
    LET q == SkipWhile(t, p, WS)
    IN  q <= Len(t) /\ t[q] = "(" /\ Find(t, q + 1, {")"}) <= Len(t)

\* method_pattern.match(t), with method_pattern =
\* ^\s*(?:@[a-zA-Z]+\s+)*[a-zA-Z]+\s+[a-zA-Z]+\s*\([^)]*\)\s*[a-zA-Z]*\s*\{?
\* (what follows the closing parenthesis is optional and always matches)
MethodPatternMatch(t) ==
    LET p1 == SkipAnnotations(t, SkipWhile(t, 1, WS))
        p2 == SkipWhile(t, p1, Letter)
        p3 == SkipWhile(t, p2, WS)
        p4 == SkipWhile(t, p3, Letter)
    IN  p2 > p1 /\ p3 > p2 /\ p4 > p3 /\ ParamListAt(t, p4)

\* private_method_pattern.match(t), with private_method_pattern =
\* ^\s*[_a-zA-Z]+\s+_[a-zA-Z]+\s*\([^)]*\)\s*\{?
PrivateMethodPatternMatch(t) ==
    LET p1 == SkipWhile(t, 1, WS)
        p2 == SkipWhile(t, p1, LetterOrUnderscore)
        p3 == SkipWhile(t, p2, WS)
        p4 == SkipWhile(t, p3 + 1, Letter)
    IN  /\ p2 > p1 /\ p3 > p2
        /\ p3 <= Len(t) /\ t[p3] = "_"
        /\ p4 > p3 + 1 /\ ParamListAt(t, p4)

\* null_check_pattern.search(t), with null_check_pattern = !\s*=\s*null
NullCheckSearch(t) ==
    \E p \in 1..Len(t) :
        LET q == SkipWhile(t, p + 1, WS)
        IN  /\ t[p] = "!"
            /\ q <= Len(t) /\ t[q] = "="
            /\ MatchAt(t, SkipWhile(t, q + 1, WS), <<"n", "u", "l", "l">>)

\* empty_catch_pattern.search(t), with
\* empty_catch_pattern = catch\s*\([^)]*\)\s*\{\s*\}
EmptyCatchSearch(t) ==
    \E p \in 1..Len(t) :
        LET kw == <<"c", "a", "t", "c", "h">>
            q  == SkipWhile(t, p + Len(kw), WS)
            r  == Find(t, q + 1, {")"})
            o  == SkipWhile(t, r + 1, WS)
            c  == SkipWhile(t, o + 1, WS)
        IN  /\ MatchAt(t, p, kw)
            /\ q <= Len(t) /\ t[q] = "("
            /\ r <= Len(t)
            /\ o <= Len(t) /\ t[o] = "{"
            /\ c <= Len(t) /\ t[c] = "}"

-----------------------------------------------------------------------------
(* Findings                                                                *)

\* CodeIssue(line_number, issue_type, description, code_snippet); an
\* f-string description is its template with the value formatted into it.
CodeIssue(line_number, issue_type, description, code_snippet) ==
    [line_number |-> line_number, issue_type |-> issue_type,
     description |-> description, code_snippet |-> code_snippet]

Duplication  == <<"D", "u", "p", "l", "i", "c", "a", "t", "i", "o", "n">>
UnusedImport == <<"U", "n", "u", "s", "e", "d", " ", "I", "m", "p", "o", "r", "t">>
LongMethod   == <<"L", "o", "n", "g", " ", "M", "e", "t", "h", "o", "d">>
DeadCode     == <<"D", "e", "a", "d", " ", "C", "o", "d", "e">>
PotentialBug == <<"P", "o", "t", "e", "n", "t", "i", "a", "l", " ", "B", "u", "g">>

\* len(code) > 20
DuplicateMinLength == 20
\* method_length > 20
LongMethodThreshold == 20

\* Faulty variant: the 0-based index is reported as the line number
LineNumberZeroBased(index) == index

\* i + 1: the 1-based line number of the 0-based index i of enumerate(content)
LineNumber(index) == index + 1

\* list.extend over the per-line results
RECURSIVE Flatten(_)
Flatten(ss) == IF ss = << >> THEN << >> ELSE Head(ss) \o Flatten(Tail(ss))

\* The members of a set of line numbers, ascending
RECURSIVE Ascending(_)
Ascending(S) ==
    IF S = {} THEN << >>
    ELSE LET m == CHOOSE x \in S : \A y \in S : x <= y
         IN  <<m>> \o Ascending(S \ {m})

-----------------------------------------------------------------------------
(* _detect_duplicate_code                                                  *)

\* stripped and not stripped.startswith(('//', '/*', '*'))
IsCode(stripped) == stripped # << >> /\ ~IsComment(stripped)

\* code_blocks[stripped]: the 1-based numbers of the code lines with that text
\* code_blocks[code]: the line numbers of the lines whose stripped text is code
CodeBlock(stripped, code) ==
    {LineNumber(k - 1) : k \in {j \in 1..Len(stripped) : stripped[j] = code}}

\* Faulty variant: only the first occurrence is reported
DuplicateGroupIssuesFirstOnly(code, ks) ==
    IF Cardinality(ks) > 1 /\ Len(code) > DuplicateMinLength
    THEN <<CodeIssue(CHOOSE x \in ks : \A y \in ks : x <= y, Duplication,
                     <<"Duplicate code found (appears N times)", Cardinality(ks)>>,
                     code)>>
    ELSE << >>

\* The findings of one code_blocks entry
DuplicateGroupIssues(code, ks) ==
    IF Cardinality(ks) > 1 /\ Len(code) > DuplicateMinLength
    THEN LET in_order == Ascending(ks)
         IN  [n \in 1..Len(in_order) |->
                CodeIssue(in_order[n], Duplication,
                          <<"Duplicate code found (appears N times)", Cardinality(ks)>>,
                          code)]
    ELSE << >>

\* The dict keeps its keys in the order of their first line.
DetectDuplicateCode(lines) ==
    LET stripped == [k \in 1..Len(lines) |-> Strip(lines[k])]
        first(k) == /\ IsCode(stripped[k])
                    /\ \A j \in 1..(k - 1) : stripped[j] # stripped[k]
    IN  Flatten([k \in 1..Len(lines) |->
                    IF first(k)
                    THEN DuplicateGroupIssues(stripped[k], CodeBlock(stripped, stripped[k]))
                    ELSE << >>])

-----------------------------------------------------------------------------
(* _detect_unused_imports                                                  *)

\* import_stmt.split('/')[-1].split('.')[0]
ImportName(import_stmt) == SplitFirst(SplitLast(import_stmt, "/"), ".")

\* f"{import_name}." in line or f" {import_name}(" in line, for some line:
\* every line of the file is searched, the import's own line too.
ImportUsed(lines, import_name) ==
    \E k \in 1..Len(lines) :
        \/ Contains(import_name \o <<".">>, lines[k])
        \/ Contains(<<" ">> \o import_name \o <<"(">>, lines[k])

DetectUnusedImports(lines) ==
    Flatten([k \in 1..Len(lines) |->
        LET import_stmt == ImportMatch(Strip(lines[k]))
        IN  IF import_stmt # None /\ ~ImportUsed(lines, ImportName(import_stmt))
            THEN <<CodeIssue(LineNumber(k - 1), UnusedImport, <<"Unused import: S", import_stmt>>,
                             Strip(lines[k]))>>
            ELSE << >>])

-----------------------------------------------------------------------------
(* _detect_dead_code                                                       *)

\* line_text.split('(')[0].split()[-1]
MethodName(line_text) == LastWord(SplitFirst(line_text, "("))

\* Faulty variant: the declaration is excluded by its index
CalledByIndex(lines, method_name, k) ==
    \E j \in 1..Len(lines) :
        Contains(method_name \o <<"(">>, lines[j]) /\ j # k

\* f"{method_name}(" in other_line and other_line != line, for some
\* other_line, where line is line k: the lines are compared by their text
Called(lines, method_name, k) ==
    \E j \in 1..Len(lines) :
        Contains(method_name \o <<"(">>, lines[j]) /\ lines[j] # lines[k]

DetectDeadCode(lines) ==
    Flatten([k \in 1..Len(lines) |->
        LET line_text == Strip(lines[k])
        IN  IF /\ PrivateMethodPatternMatch(line_text)
               /\ ~Called(lines, MethodName(line_text), k)
            THEN <<CodeIssue(LineNumber(k - 1), DeadCode,
                             <<"Private method 'S' is never called", MethodName(line_text)>>,
                             line_text)>>
            ELSE << >>])

-----------------------------------------------------------------------------
(* _detect_potential_bugs                                                  *)

DetectPotentialBugs(lines) ==
    Flatten([k \in 1..Len(lines) |->
        LET line_text == Strip(lines[k])
        IN  (IF NullCheckSearch(line_text) /\ ~Contains(<<"?">>, line_text)
             THEN <<CodeIssue(LineNumber(k - 1), PotentialBug,
                              <<"Null check without null-aware operator (?.)", 0>>,
                              line_text)>>
             ELSE << >>)
            \o
            (IF EmptyCatchSearch(line_text)
             THEN <<CodeIssue(LineNumber(k - 1), PotentialBug,
                              <<"Empty catch block - exceptions should be handled properly", 0>>,
                              line_text)>>
             ELSE << >>)])

-----------------------------------------------------------------------------
(* _calculate_metrics                                                      *)

\* a / b * c as the exact fraction <<a * c, b>>; b = 0 raises ZeroDivisionError
TrueDivTimes(a, b, c) == <<a * c, b>>
Raises(v) == v[2] = 0
\* the int 0 of the else branch
Zero == <<0, 1>>

\* Faulty variant: the division is not guarded
CommentDensityUnguarded(comment_lines, code_lines) ==
    TrueDivTimes(comment_lines, code_lines, 100)

\* comment_lines / code_lines * 100 if code_lines else 0
CommentDensity(comment_lines, code_lines) ==
    IF code_lines # 0 THEN TrueDivTimes(comment_lines, code_lines, 100) ELSE Zero

\* sum(1 for line in content if line.strip() and not line.strip().startswith(...))
CodeLines(lines) == Cardinality({k \in 1..Len(lines) : IsCode(Strip(lines[k]))})

\* sum(1 for line in content if line.strip().startswith(...))
CommentLines(lines) == Cardinality({k \in 1..Len(lines) : IsComment(Strip(lines[k]))})

\* issue_counts[issue.issue_type] += 1 over the first n issues
RECURSIVE IssueCounts(_, _)
IssueCounts(iss, n) ==
    IF n = 0 THEN << >>
    ELSE LET before == IssueCounts(iss, n - 1)
             t      == iss[n].issue_type
         IN  IF t \in DOMAIN before
             THEN [before EXCEPT ![t] = @ + 1]
             ELSE before @@ (t :> 1)

\* The keys of issue_counts in insertion order
IssueTypesInOrder(iss) ==
    Flatten([n \in 1..Len(iss) |->
        IF \A m \in 1..(n - 1) : iss[m].issue_type # iss[n].issue_type
        THEN <<iss[n].issue_type>> ELSE << >>])

\* Faulty variant: the blanks are kept
CountKeyKeepsBlanks(issue_type) == LowerCase(issue_type) \o <<"_", "c", "o", "u", "n", "t">>

\* f'{issue_type.lower().replace(" ", "_")}_count'
CountKey(issue_type) == Replace(LowerCase(issue_type), " ", "_") \o <<"_", "c", "o", "u", "n", "t">>

\* metrics[key] = value: a dict assignment replaces the value of a key it holds
SetItem(d, key, value) == (key :> value) @@ d

\* for issue_type, count in issue_counts.items(): metrics[...] = count
RECURSIVE AddIssueCounts(_, _, _)
AddIssueCounts(m, types, counts) ==
    IF types = << >> THEN m
    ELSE AddIssueCounts(SetItem(m, CountKey(Head(types)), counts[Head(types)]),
                        Tail(types), counts)

TotalLinesKey      == <<"t", "o", "t", "a", "l", "_", "l", "i", "n", "e", "s">>
CodeLinesKey       == <<"c", "o", "d", "e", "_", "l", "i", "n", "e", "s">>
CommentLinesKey    == <<"c", "o", "m", "m", "e", "n", "t", "_", "l", "i", "n", "e", "s">>
CommentDensityKey  == <<"c", "o", "m", "m", "e", "n", "t", "_", "d", "e", "n", "s", "i", "t", "y">>

CalculateMetrics(lines, iss) ==
    LET base == (TotalLinesKey :> Len(lines))
                @@ (CodeLinesKey :> CodeLines(lines))
                @@ (CommentLinesKey :> CommentLines(lines))
                @@ (CommentDensityKey :> CommentDensity(CommentLines(lines), CodeLines(lines)))
    IN  AddIssueCounts(base, IssueTypesInOrder(iss), IssueCounts(iss, Len(iss)))

\* FileAnalysis(file_path, issues, metrics)
FileAnalysis(file_path, iss, m) ==
    [file_path |-> file_path, issues |-> iss, metrics |-> m]

-----------------------------------------------------------------------------
(* Input files                                                             *)

\* Longest file of the exhaustive family
MaxLines == 2
\* Longest method body of the method family
MaxBody == 21

SigBrace    == <<"v", "o", "i", "d", " ", "r", "u", "n", "(", ")", " ", "{", "\n">>
SigNoBrace  == <<"v", "o", "i", "d", " ", "r", "u", "n", "(", ")", "\n">>
OpenBrace   == <<"{", "\n">>
CloseBrace  == <<"}", "\n">>
CloseTwo    == <<"}", "}", "\n">>
OneLiner    == <<"i", "n", "t", " ", "g", "e", "t", "(", ")", " ", "{", " ", "r", "e", "t", "u", "r", "n", " ", "1", ";", " ", "}", "\n">>
Annotated   == <<"@", "o", "v", "e", "r", "r", "i", "d", "e", " ", "v", "o", "i", "d", " ", "b", "u", "i", "l", "d", "(", ")", " ", "{", "\n">>
Statement   == <<" ", " ", "x", "+", "+", ";", "\n">>
NullCheck   == <<"i", "f", " ", "(", "v", " ", "!", "=", " ", "n", "u", "l", "l", ")", " ", "{", "\n">>
NullSafe    == <<"i", "f", " ", "(", "v", "?", ".", "x", " ", "!", "=", " ", "n", "u", "l", "l", ")", " ", "{", "\n">>
EmptyCatch  == <<"c", "a", "t", "c", "h", " ", "(", "e", ")", " ", "{", " ", " ", "}", "\n">>
ImportExt   == <<"i", "m", "p", "o", "r", "t", " ", "'", "w", "/", "b", "t", "n", ".", "d", "a", "r", "t", "'", ";", "\n">>
ImportNoExt == <<"i", "m", "p", "o", "r", "t", " ", "'", "w", "/", "b", "t", "n", "'", ";", "\n">>
ImportUse   == <<" ", " ", "b", "t", "n", ".", "o", "n", "T", "a", "p", "(", ")", ";", "\n">>
PrivateDecl == <<"v", "o", "i", "d", " ", "_", "h", "e", "l", "p", "e", "r", "(", ")", " ", "{", "\n">>
PrivateCall == <<" ", " ", "_", "h", "e", "l", "p", "e", "r", "(", "1", ")", ";", "\n">>
Comment     == <<"/", "/", " ", "s", "e", "e", " ", "f", "o", "o", ".", "b", "a", "r", "(", "b", "a", "z", ",", " ", "q", "u", "x", ")", ";", "\n">>
StarComment == <<" ", "*", " ", "n", "o", "t", "e", "\n">>
Blank       == <<"\n">>
LongLine    == <<" ", " ", "f", "o", "o", ".", "b", "a", "r", "(", "b", "a", "z", ",", " ", "q", "u", "x", ",", " ", "q", "u", "u", "x", ")", ";", "\n">>
Line20      == <<"f", "o", "o", ".", "b", "a", "r", "(", "b", "a", "z", ",", " ", "q", "u", "x", "x", "x", ")", ";", "\n">>

LineKinds ==
    {SigBrace, SigNoBrace, OpenBrace, CloseBrace, CloseTwo, OneLiner, NullCheck,
     NullSafe, EmptyCatch, ImportExt, ImportNoExt, ImportUse, PrivateDecl,
     PrivateCall, Comment, StarComment, Blank, LongLine, Line20}

\* A text file's last line may lack the newline.
NoFinalNewline(f) ==
    [f EXCEPT ![Len(f)] = SubSeq(@, 1, Len(@) - 1)]

RECURSIVE SeqsUpTo(_, _)
SeqsUpTo(S, n) ==
    IF n = 0 THEN {<< >>}
    ELSE LET shorter == SeqsUpTo(S, n - 1)
         IN  shorter \cup {Append(f, x) : f \in {g \in shorter : Len(g) = n - 1}, x \in S}

ShortFiles == SeqsUpTo(LineKinds, MaxLines)

Body(n) == [k \in 1..n |-> Statement]

\* A method of n body statements: the brace on the signature line, on the
\* line after it, or on the signature line with a nested block in the body.
MethodShapes == {"brace", "next_line", "nested", "annotated"}
Method(shape, n) ==
    CASE shape = "brace"     -> <<SigBrace>> \o Body(n) \o <<CloseBrace>>
      [] shape = "annotated" -> <<Annotated>> \o Body(n) \o <<CloseBrace>>
      [] shape = "next_line" -> <<SigNoBrace, OpenBrace>> \o Body(n) \o <<CloseBrace>>
      [] shape = "nested"    -> <<SigBrace, NullCheck>> \o Body(n) \o <<CloseBrace, CloseBrace>>

BodyLengths == {0} \cup ((LongMethodThreshold - 2)..MaxBody)

Methods == {Method(sh, n) : sh \in MethodShapes, n \in BodyLengths}

\* One method, or two of which the second is empty or of the longest body
MethodFiles ==
    {m1 \o m2 : m1 \in Methods,
                m2 \in {<< >>} \cup {Method(sh, n) : sh \in MethodShapes, n \in {0, MaxBody}}}
    \cup {<<ImportNoExt, SigBrace>> \o Body(n) \o <<CloseTwo, SigBrace, OneLiner, CloseBrace>> :
            n \in BodyLengths}
    \cup {Method("brace", MaxBody) \o Method("brace", MaxBody)
            \o <<SigBrace, NullCheck, CloseBrace, CloseBrace>>}

\* The examples of the specification's section 8
ExampleFiles ==
    { <<LongLine, <<"x", "\n">>, LongLine>>,
      <<ImportExt>>,
      <<ImportExt, ImportUse>>,
      <<PrivateDecl, CloseBrace, PrivateCall>>,
      <<NullCheck, CloseBrace, EmptyCatch>>,
      <<Comment, Blank>> }

Files ==
    ShortFiles \cup MethodFiles \cup ExampleFiles
    \cup {NoFinalNewline(f) :
            f \in {g \in ShortFiles \cup ExampleFiles : g # << >> /\ g[Len(g)] # Blank}}

-----------------------------------------------------------------------------
(* analyze_flutter_project                                                 *)

Paths == {"a.dart", "b.dart"}

Init ==
    /\ \/ /\ file_paths = <<"a.dart">>
          /\ disk \in [{"a.dart"} -> Files]
       \/ /\ file_paths = <<"a.dart", "b.dart">>
          /\ disk \in [Paths -> ExampleFiles]
    /\ idx = 0
    /\ pc = "open"
    /\ content = << >>
    /\ issues = << >>
    /\ i = 0
    /\ method_start = None
    /\ brace_count = 0
    /\ long_issues = << >>
    /\ closed = << >>
    /\ metrics = << >>
    /\ results = << >>

long_locals == <<i, method_start, brace_count, long_issues, closed>>

\* for file_path in file_paths: content = file.readlines(); issues = []
ReadLines ==
    /\ pc = "open"
    /\ idx < Len(file_paths)
    /\ content' = disk[file_paths[idx + 1]]
    /\ issues' = << >>
    /\ pc' = "duplicates"
    /\ UNCHANGED <<file_paths, disk, idx, long_locals, metrics, results>>

\* issues.extend(_detect_duplicate_code(content, file_path))
ExtendDuplicateCode ==
    /\ pc = "duplicates"
    /\ issues' = issues \o DetectDuplicateCode(content)
    /\ pc' = "imports"
    /\ UNCHANGED <<file_paths, disk, idx, content, long_locals, metrics, results>>

\* issues.extend(_detect_unused_imports(content))
ExtendUnusedImports ==
    /\ pc = "imports"
    /\ issues' = issues \o DetectUnusedImports(content)
    /\ pc' = "long_methods"
    /\ UNCHANGED <<file_paths, disk, idx, content, long_locals, metrics, results>>

\* _detect_long_methods is entered: issues = []; method_start = None; brace_count = 0
LongMethodsEnter ==
    /\ pc = "long_methods"
    /\ i' = 0
    /\ method_start' = None
    /\ brace_count' = 0
    /\ long_issues' = << >>
    /\ closed' = << >>
    /\ pc' = "long_loop"
    /\ UNCHANGED <<file_paths, disk, idx, content, issues, metrics, results>>

\* brace_count += line_text.count('{'); brace_count -= line_text.count('}')
CountBraces(count, line_text) == count + Count(line_text, "{") - Count(line_text, "}")

\* Faulty variant: a signature restarts the tracking inside a method
StartsMethodAnywhere(start, line_text) == MethodPatternMatch(line_text)

\* method_start is None and method_pattern.match(line_text)
StartsMethod(start, line_text) == start = None /\ MethodPatternMatch(line_text)

\* Faulty variant: the method ends only below zero
MethodEndedBelowZero(count, start) == count < 0 /\ start # None

\* brace_count <= 0 and method_start is not None
MethodEnded(count, start) == count <= 0 /\ start # None

\* method_length = i + 1 - method_start
MethodLength(n, start) == n + 1 - Value(start)

\* method_length > 20
IsLongMethod(method_length) == method_length > LongMethodThreshold

\* One iteration of `for i, line in enumerate(content)`
LongMethodsLine ==
    /\ pc = "long_loop"
    /\ i < Len(content)
    /\ LET line_text == Strip(content[i + 1])
           starts    == StartsMethod(method_start, line_text)
           start     == IF starts THEN Some(LineNumber(i)) ELSE method_start
           count     == IF start # None
                        THEN CountBraces(IF starts THEN 0 ELSE brace_count, line_text)
                        ELSE brace_count
           ended     == MethodEnded(count, start)
           length    == MethodLength(i, start)
       IN  /\ brace_count' = count
           /\ method_start' = IF ended THEN None ELSE start
           /\ long_issues' =
                IF ended /\ IsLongMethod(length)
                THEN Append(long_issues,
                            CodeIssue(Value(start), LongMethod,
                                      <<"Method is too long (N lines)", length>>,
                                      Strip(content[Value(start)])))
                ELSE long_issues
           /\ closed' = IF ended THEN Append(closed, <<Value(start), LineNumber(i)>>) ELSE closed
    /\ i' = i + 1
    /\ UNCHANGED <<file_paths, disk, idx, pc, content, issues, metrics, results>>

\* return issues; issues.extend(...)
ExtendLongMethods ==
    /\ pc = "long_loop"
    /\ i = Len(content)
    /\ issues' = issues \o long_issues
    /\ pc' = "dead_code"
    /\ UNCHANGED <<file_paths, disk, idx, content, long_locals, metrics, results>>

\* issues.extend(_detect_dead_code(content))
ExtendDeadCode ==
    /\ pc = "dead_code"
    /\ issues' = issues \o DetectDeadCode(content)
    /\ pc' = "potential_bugs"
    /\ UNCHANGED <<file_paths, disk, idx, content, long_locals, metrics, results>>

\* issues.extend(_detect_potential_bugs(content))
ExtendPotentialBugs ==
    /\ pc = "potential_bugs"
    /\ issues' = issues \o DetectPotentialBugs(content)
    /\ pc' = "metrics"
    /\ UNCHANGED <<file_paths, disk, idx, content, long_locals, metrics, results>>

\* metrics = _calculate_metrics(content, issues); a ZeroDivisionError
\* leaves analyze_flutter_project
Metrics ==
    /\ pc = "metrics"
    /\ IF Raises(CommentDensity(CommentLines(content), CodeLines(content)))
       THEN pc' = "raised" /\ UNCHANGED metrics
       ELSE pc' = "store" /\ metrics' = CalculateMetrics(content, issues)
    /\ UNCHANGED <<file_paths, disk, idx, content, issues, long_locals, results>>

\* results[file_path] = FileAnalysis(file_path=file_path, issues=issues, metrics=metrics)
StoreResult ==
    /\ pc = "store"
    /\ results' = SetItem(results, file_paths[idx + 1],
                          FileAnalysis(file_paths[idx + 1], issues, metrics))
    /\ idx' = idx + 1
    /\ pc' = "open"
    /\ UNCHANGED <<file_paths, disk, content, issues, long_locals, metrics>>

\* return results
Return ==
    /\ pc = "open"
    /\ idx = Len(file_paths)
    /\ pc' = "done"
    /\ UNCHANGED <<file_paths, disk, idx, content, issues, long_locals, metrics, results>>

Next ==
    \/ ReadLines
    \/ ExtendDuplicateCode
    \/ ExtendUnusedImports
    \/ LongMethodsEnter
    \/ LongMethodsLine
    \/ ExtendLongMethods
    \/ ExtendDeadCode
    \/ ExtendPotentialBugs
    \/ Metrics
    \/ StoreResult
    \/ Return

Spec == Init /\ [][Next]_vars

-----------------------------------------------------------------------------
(* Properties                                                              *)

\* The position of the loop body right after each pass has extended `issues`
AfterDuplicates    == "imports"
AfterUnusedImports == "long_methods"
AfterDeadCode      == "potential_bugs"

\* The positions in iss of the findings of a category at a line
IssuesAt(iss, issue_type, line_number) ==
    {n \in 1..Len(iss) : /\ iss[n].issue_type = issue_type
                         /\ iss[n].line_number = line_number}

\* The positions in iss of the findings of a category
IssuesOf(iss, issue_type) == {n \in 1..Len(iss) : iss[n].issue_type = issue_type}

\* Net brace count of a line
Net(line_text) == Count(line_text, "{") - Count(line_text, "}")

\* C1: every method the long-method pass closed, tracked from line s and
\* closed at line c, has the length c - s + 1, and a LongMethod finding at s
\* citing that length exists exactly when c - s + 1 > 20.
C1_LengthCountsBothEnds ==
    pc = "long_loop" =>
        \A k \in 1..Len(closed) :
            LET s == closed[k][1]
                c == closed[k][2]
            IN  (\E n \in IssuesAt(long_issues, LongMethod, s) :
                    long_issues[n].description[2] = c - s + 1)
                <=> (c - s + 1 > LongMethodThreshold)

\* C2: once the unused-import pass has run, an import whose identifier no
\* other line references has exactly one UnusedImport finding at its line,
\* and an import whose identifier another line references has none.
C2_UnreferencedImportReported ==
    pc = AfterUnusedImports =>
        \A k \in 1..Len(content) :
            LET import_stmt == ImportMatch(Strip(content[k]))
                name        == ImportName(import_stmt)
                elsewhere   == \E j \in (1..Len(content)) \ {k} :
                                  \/ Contains(name \o <<".">>, content[j])
                                  \/ Contains(<<" ">> \o name \o <<"(">>, content[j])
            IN  import_stmt # None =>
                    Cardinality(IssuesAt(issues, UnusedImport, k))
                        = IF elsewhere THEN 0 ELSE 1

\* C3: a method whose signature line holds no brace and whose opening brace
\* is on the next line is not closed at its signature line.
C3_OpenUntilClosingBrace ==
    pc = "long_loop" =>
        \A k \in 1..Len(closed) :
            LET s == closed[k][1]
            IN  (/\ Net(Strip(content[s])) = 0
                 /\ Count(content[s], "{") = 0
                 /\ s < Len(content)
                 /\ StartsWith(Strip(content[s + 1]), <<"{">>))
                => closed[k][2] > s

\* C4: every finding of every analysed file has a line number between 1 and
\* the file's total_lines.
C4_LineNumbersInFile ==
    \A p \in DOMAIN results :
        \A n \in 1..Len(results[p].issues) :
            /\ 1 <= results[p].issues[n].line_number
            /\ results[p].issues[n].line_number <= results[p].metrics[TotalLinesKey]

C4_Witness ==
    \E p \in DOMAIN results :
        /\ results[p].metrics[TotalLinesKey] >= 2
        /\ \E n \in 1..Len(results[p].issues) :
              results[p].issues[n].line_number = results[p].metrics[TotalLinesKey]
        /\ \E n \in 1..Len(results[p].issues) :
              results[p].issues[n].line_number = 1

\* The metric key of each category, spelled out
ExpectedCountKey ==
    (Duplication :> <<"d", "u", "p", "l", "i", "c", "a", "t", "i", "o", "n", "_", "c", "o", "u", "n", "t">>)
    @@ (UnusedImport :> <<"u", "n", "u", "s", "e", "d", "_", "i", "m", "p", "o", "r", "t", "_", "c", "o", "u", "n", "t">>)
    @@ (LongMethod :> <<"l", "o", "n", "g", "_", "m", "e", "t", "h", "o", "d", "_", "c", "o", "u", "n", "t">>)
    @@ (DeadCode :> <<"d", "e", "a", "d", "_", "c", "o", "d", "e", "_", "c", "o", "u", "n", "t">>)
    @@ (PotentialBug :> <<"p", "o", "t", "e", "n", "t", "i", "a", "l", "_", "b", "u", "g", "_", "c", "o", "u", "n", "t">>)

Categories == DOMAIN ExpectedCountKey

SizeKeys == {TotalLinesKey, CodeLinesKey, CommentLinesKey, CommentDensityKey}

RECURSIVE SumOver(_, _)
SumOver(m, keys) ==
    IF keys = {} THEN 0
    ELSE LET k == CHOOSE x \in keys : TRUE
         IN  m[k] + SumOver(m, keys \ {k})

\* C5: the metrics of every analysed file hold one '<category>_count' entry
\* for each category present among its findings and none for an absent one,
\* each valued at the number of findings of that category, so that the
\* entries sum to the number of findings; no two categories share a key.
C5_CategoryCounts ==
    \A p \in DOMAIN results :
        LET iss     == results[p].issues
            m       == results[p].metrics
            present == {c \in Categories : IssuesOf(iss, c) # {}}
        IN  /\ \A n \in 1..Len(iss) : iss[n].issue_type \in Categories
            /\ DOMAIN m \ SizeKeys = {ExpectedCountKey[c] : c \in present}
            /\ \A c \in present : m[ExpectedCountKey[c]] = Cardinality(IssuesOf(iss, c))
            /\ SumOver(m, DOMAIN m \ SizeKeys) = Len(iss)
            /\ \A c, d \in Categories : c # d => ExpectedCountKey[c] # ExpectedCountKey[d]

C5_Witness ==
    \E p \in DOMAIN results :
        LET iss == results[p].issues
            m   == results[p].metrics
        IN  /\ Cardinality(DOMAIN m \ SizeKeys) >= 2
            /\ \E k \in DOMAIN m \ SizeKeys : m[k] >= 2
            /\ IssuesOf(iss, LongMethod) # {}

\* C6: once the dead-code pass has run, a line of the private-member shape
\* with name n has a DeadCode finding at its line number if and only if no
\* line whose text differs from it contains n followed by '(', and no other
\* line has a DeadCode finding.
C6_DeadCodeByLineText ==
    pc = AfterDeadCode =>
        \A k \in 1..Len(content) :
            LET line_text == Strip(content[k])
                called    == \E j \in 1..Len(content) :
                                /\ content[j] # content[k]
                                /\ Contains(MethodName(line_text) \o <<"(">>, content[j])
            IN  IssuesAt(issues, DeadCode, k) # {}
                    <=> (PrivateMethodPatternMatch(line_text) /\ ~called)

C6_Witness ==
    /\ pc = AfterDeadCode
    /\ \E k, j \in 1..Len(content) :
          /\ k # j
          /\ content[k] = content[j]
          /\ IssuesAt(issues, DeadCode, k) # {}
          /\ IssuesAt(issues, DeadCode, j) # {}

\* The lines whose trimmed text is that of line k
SameTrimmed(lines, k) == {j \in 1..Len(lines) : Strip(lines[j]) = Strip(lines[k])}

\* Line k is in a group the duplication pass flags
Flagged(lines, k) ==
    /\ Strip(lines[k]) # << >>
    /\ ~IsComment(Strip(lines[k]))
    /\ Cardinality(SameTrimmed(lines, k)) > 1
    /\ Len(Strip(lines[k])) > DuplicateMinLength

\* C7: once the duplication pass has run, every line of a group of non-blank,
\* non-comment lines with the same trimmed text, more than one occurrence
\* and a trimmed length above 20 has exactly one Duplication finding, which
\* cites the group's number of occurrences; every other line has none.
C7_OneFindingPerOccurrence ==
    pc = AfterDuplicates =>
        \A k \in 1..Len(content) :
            LET at == IssuesAt(issues, Duplication, k)
            IN  /\ Cardinality(at) = IF Flagged(content, k) THEN 1 ELSE 0
                /\ \A n \in at :
                      issues[n].description[2] = Cardinality(SameTrimmed(content, k))

C7_Witness ==
    /\ pc = AfterDuplicates
    /\ Len(content) = 3
    /\ IssuesAt(issues, Duplication, 1) # {}
    /\ IssuesAt(issues, Duplication, 2) = {}
    /\ IssuesAt(issues, Duplication, 3) # {}

\* C8: no division by zero occurs; the metrics of a file without code lines
\* have the comment density 0; and code_lines + comment_lines <= total_lines.
C8_DensityWithoutCode ==
    /\ pc # "raised"
    /\ pc = "store" =>
          /\ metrics[CodeLinesKey] = 0 => metrics[CommentDensityKey] = Zero
          /\ metrics[CodeLinesKey] + metrics[CommentLinesKey] <= metrics[TotalLinesKey]

C8_Witness ==
    /\ pc = "store"
    /\ metrics[CodeLinesKey] = 0
    /\ metrics[CommentLinesKey] >= 1
    /\ metrics[TotalLinesKey] > metrics[CommentLinesKey]

\* C9: a line of the long-method scan read inside a method never restarts
\* the tracking: the start line is kept and the line's braces are added to
\* the counter, and the method is closed exactly when the counter is <= 0.
\* A line read outside a method starts tracking only if it matches the
\* signature pattern, and then the counter restarts from zero.  A closed
\* method leaves the tracker outside a method, with or without a finding.
C9_TrackerSteps ==
    [][(pc = "long_loop" /\ i' = i + 1) =>
        LET line_text == Strip(content[i + 1])
            inside    == brace_count + Net(line_text)
        IN  /\ method_start # None =>
                 /\ brace_count' = inside
                 /\ method_start' = IF inside <= 0 THEN None ELSE method_start
            /\ (method_start = None /\ ~MethodPatternMatch(line_text)) =>
                 /\ method_start' = None
                 /\ brace_count' = brace_count
            /\ (method_start = None /\ MethodPatternMatch(line_text)) =>
                 /\ brace_count' = Net(line_text)
                 /\ method_start' = IF Net(line_text) <= 0 THEN None ELSE Some(i + 1)
            /\ Len(closed') > Len(closed) => method_start' = None
            /\ Len(long_issues') > Len(long_issues) => Len(closed') > Len(closed)
      ]_vars

C9_Witness ==
    /\ pc = "long_loop"
    /\ Len(closed) >= 1
    /\ closed[Len(closed)][2] - closed[Len(closed)][1] <= LongMethodThreshold
    /\ method_start # None
    /\ Value(method_start) > closed[Len(closed)][2]
    /\ Value(method_start) < i
    /\ MethodPatternMatch(Strip(content[i]))

\* C10: after each line of the long-method scan the tracker is outside a
\* method, or inside one with a depth >= 1 and a start line <= the current
\* line; the line ranges of the closed methods are disjoint and in order, a
\* method being tracked starts after them; and the LongMethod findings have
\* strictly increasing line numbers.
C10_TrackerInvariant ==
    pc = "long_loop" =>
        /\ method_start # None =>
              /\ brace_count >= 1
              /\ Value(method_start) <= i
              /\ \A k \in 1..Len(closed) : closed[k][2] < Value(method_start)
        /\ \A k \in 1..Len(closed) :
              /\ 1 <= closed[k][1] /\ closed[k][1] <= closed[k][2] /\ closed[k][2] <= i
              /\ k < Len(closed) => closed[k][2] < closed[k + 1][1]
        /\ \A n \in 1..(Len(long_issues) - 1) :
              long_issues[n].line_number < long_issues[n + 1].line_number

C10_Witness ==
    /\ pc = "long_loop"
    /\ Len(long_issues) >= 2
    /\ method_start # None
    /\ brace_count >= 2

=============================================================================
